---- MODULE Spec2Model ----
(***************************************************************************)
(* Weekly driver rotation server (src/server.js): the settings document,  *)
(* the rotation engine getCurrentDriver, the change-driver handler, the   *)
(* save-settings handler and the once-a-minute reminder scheduler.        *)
(***************************************************************************)
EXTENDS Integers, Sequences, FiniteSets, TLC

VARIABLES
    settings,          \* the parsed content of settings.json
    now,               \* host-local wall clock: [date, hours, minutes]
    tz,                \* host offset from UTC in minutes (local = UTC + tz)
    lastReminderDate,  \* scheduler's in-memory marker ('' is <<>>)
    step,              \* the latest request or tick, its inputs and its host-local date
    res,               \* the HTTP response to it (status 0: none)
    sent,              \* the messages it handed to the Telegram API
    firedOn,           \* history: host-local date of the latest reminder sent
    call,              \* arguments of a direct evaluation of the rotation engine
    ret                \* its result

vars == <<settings, now, tz, lastReminderDate, step, res, sent, firedOn, call, ret>>

----------------------------------------------------------------------------
(* Bounds of the model *)

MaxUsers == 3
NumDays == 2
NumYears == 12

(* Participant names used in rosters; "Z" is a name that is in no roster. *)
Names == {"A", "B", "C"}
Outsider == "Z"

----------------------------------------------------------------------------
(* JavaScript Date arithmetic on whole days (days since 1970-01-01) *)

DaysFromCivil(y, m, d) ==
    LET yy  == IF m <= 2 THEN y - 1 ELSE y
        era == yy \div 400
        yoe == yy - era * 400
        mp  == (m + 9) % 12
        doy == (153 * mp + 2) \div 5 + d - 1
        doe == yoe * 365 + yoe \div 4 - yoe \div 100 + doy
    IN  era * 146097 + doe - 719468

(* The civil date of a day number, in stages: 400-year era and day of era, *)
(* year of era, day of the March-based year, March-based month.            *)
CivilOfMonth(y, doy, mp) ==
    [year  |-> IF mp < 10 THEN y ELSE y + 1,
     month |-> IF mp < 10 THEN mp + 3 ELSE mp - 9,
     day   |-> doy - (153 * mp + 2) \div 5 + 1]

CivilOfYearDay(y, doy) == CivilOfMonth(y, doy, (5 * doy + 2) \div 153)

CivilOfYearOfEra(era, doe, yoe) ==
    CivilOfYearDay(yoe + era * 400, doe - (365 * yoe + yoe \div 4 - yoe \div 100))

CivilOfEra(era, doe) ==
    CivilOfYearOfEra(era, doe,
        (doe - doe \div 1460 + doe \div 36524 - doe \div 146096) \div 365)

CivilFromDays(z) ==
    CivilOfEra((z + 719468) \div 146097, (z + 719468) % 146097)

(* Date.prototype.getDay / getUTCDay: 0 = Sunday ... 6 = Saturday *)
getDay(date) == (date + 4) % 7

getFullYear(date) == CivilFromDays(date).year

getWeekNumber_ofOwnYear(date) ==
    LET c         == CivilFromDays(date)
        d         == DaysFromCivil(c.year, c.month, c.day)
        yearStart == DaysFromCivil(getFullYear(d), 1, 1)
    IN  ((d - yearStart) + 1 + 6) \div 7

(* function getWeekNumber(date) *)
getWeekNumber(date) ==
    LET c         == CivilFromDays(date)
        d         == DaysFromCivil(c.year, c.month, c.day)
        dayNum    == IF getDay(d) = 0 THEN 7 ELSE getDay(d)
        thursday  == d + 4 - dayNum
        yearStart == DaysFromCivil(getFullYear(thursday), 1, 1)
    IN  ((thursday - yearStart) + 1 + 6) \div 7

(* now.toISOString().split('T')[0]: the UTC calendar date "YYYY-MM-DD" *)
toISODate(t, offset) ==
    LET utcMinutes == t.date * 1440 + t.hours * 60 + t.minutes - offset
        c          == CivilFromDays(utcMinutes \div 1440)
    IN  <<c.year, c.month, c.day>>

----------------------------------------------------------------------------
(* Rotation engine *)

At(users, i) == users[i + 1]

RECURSIVE RaiseWeek(_, _)
RaiseWeek(effectiveWeek, n) ==
    IF effectiveWeek < 0 THEN RaiseWeek(effectiveWeek + n, n) ELSE effectiveWeek

(* getCurrentDriver counting the anchor week as offset 1 instead of 0 *)
getCurrentDriver_oneBased(s, targetWeek, year) ==
    IF Len(s.users) = 0 THEN [name |-> "Kullanici yok", index |-> -1]
    ELSE
      LET baseWeek == IF s.rotationStartWeek = 0 THEN 1 ELSE s.rotationStartWeek
          baseYear == IF s.rotationStartYear = 0 THEN year ELSE s.rotationStartYear
          week0    == targetWeek - baseWeek + 1
          week1    == IF year > baseYear THEN week0 + (year - baseYear) * 52 ELSE week0
          effectiveWeek == RaiseWeek(week1, Len(s.users))
          driverIndex   == effectiveWeek % Len(s.users)
      IN  [name |-> At(s.users, driverIndex).name, index |-> driverIndex]

(* getCurrentDriver adding the year difference also when the target year is earlier *)
getCurrentDriver_signedYears(s, targetWeek, year) ==
    IF Len(s.users) = 0 THEN [name |-> "Kullanici yok", index |-> -1]
    ELSE
      LET baseWeek == IF s.rotationStartWeek = 0 THEN 1 ELSE s.rotationStartWeek
          baseYear == IF s.rotationStartYear = 0 THEN year ELSE s.rotationStartYear
          week0    == targetWeek - baseWeek
          week1    == week0 + (year - baseYear) * 52
          effectiveWeek == RaiseWeek(week1, Len(s.users))
          driverIndex   == effectiveWeek % Len(s.users)
      IN  [name |-> At(s.users, driverIndex).name, index |-> driverIndex]

(* function getCurrentDriver(settings, targetWeek, year) *)
getCurrentDriver(s, targetWeek, year) ==
    IF Len(s.users) = 0 THEN [name |-> "Kullanici yok", index |-> -1]
    ELSE
      LET baseWeek == IF s.rotationStartWeek = 0 THEN 1 ELSE s.rotationStartWeek
          baseYear == IF s.rotationStartYear = 0 THEN year ELSE s.rotationStartYear
          week0    == targetWeek - baseWeek
          week1    == IF year > baseYear THEN week0 + (year - baseYear) * 52 ELSE week0
          effectiveWeek == RaiseWeek(week1, Len(s.users))
          driverIndex   == effectiveWeek % Len(s.users)
      IN  [name |-> At(s.users, driverIndex).name, index |-> driverIndex]

----------------------------------------------------------------------------
(* Values of the model *)

User(n) == [name |-> n]

(* The server's clock runs over NumDays host-local dates from Thursday     *)
(* 2026-12-31; that day and Friday 2027-01-01 are in ISO week 53 of 2026.  *)
FirstDay == DaysFromCivil(2026, 12, 31)
Days == FirstDay .. (FirstDay + NumDays - 1)
ClockHours == {2, 18}
ClockMinutes == {0, 30}
Instants == {t \in [date : Days, hours : ClockHours, minutes : ClockMinutes] :
                 t.hours = 18 \/ t.minutes = 0}
Minutes(t) == t.date * 1440 + t.hours * 60 + t.minutes

(* Host time zones: UTC and UTC+3 *)
TzOffsets == {0, 180}

Rosters == UNION {[1..n -> {User(x) : x \in Names}] : n \in 0..MaxUsers}

NoStep == [op |-> "none", newDriverIndex |-> -1, changerName |-> "", date |-> -1]
NoRes == [status |-> 0, error |-> "", changer |-> "", driver |-> "", newOrder |-> <<>>]
NoCall == [users |-> <<>>, rotationStartWeek |-> 0, rotationStartYear |-> 0,
           targetWeek |-> 0, year |-> 0]
NoRet == [name |-> "", index |-> -2]

(* const initialSettings, written when settings.json does not exist *)
initialSettings ==
    [botToken |-> "", chatId |-> "",
     reminderDay |-> 5, reminderHour |-> 18, reminderMinute |-> 0,
     users |-> <<>>, rotationStartWeek |-> 1, rotationStartYear |-> 2025]

----------------------------------------------------------------------------
(* Notification gateway *)

(* sendTelegramMessage: the message reaches the Telegram API only when both *)
(* botToken and chatId are set; ok is the API's answer.                     *)
sendTelegramMessage(botToken, chatId, message, ok) ==
    IF botToken = "" \/ chatId = "" THEN <<>>
    ELSE <<[message |-> message, ok |-> ok]>>

----------------------------------------------------------------------------
(* POST /api/settings: the request body replaces the whole document *)

SaveSettings(body) ==
    /\ settings' = body
    /\ step' = [NoStep EXCEPT !.op = "save-settings", !.date = now.date]
    /\ res' = [NoRes EXCEPT !.status = 200]
    /\ sent' = <<>>
    /\ UNCHANGED <<now, tz, lastReminderDate, firedOn, call, ret>>

----------------------------------------------------------------------------
(* POST /api/change-driver *)

(* settings.users.find(u => u.name === changer): 0-based index, -1 for undefined *)
FindByName(users, n) ==
    IF \E i \in 1..Len(users) : users[i].name = n
    THEN (CHOOSE i \in 1..Len(users) :
              /\ users[i].name = n
              /\ \A j \in 1..(i - 1) : users[j].name # n) - 1
    ELSE -1

(* the loop excluding only the new driver, so the changer is appended again *)
Others_keepsChanger(users, newDriverUser, hasChanger, changerUser) ==
    SelectSeq(users, LAMBDA user : user.name # newDriverUser.name)

(* the loop that appends the other users in roster order *)
Others(users, newDriverUser, hasChanger, changerUser) ==
    SelectSeq(users, LAMBDA user :
        /\ user.name # newDriverUser.name
        /\ (~hasChanger \/ user.name # changerUser.name))

(* the changer's name: changerName || settings.users[current.index].name *)
ChangerOf(s, changerName, current) ==
    IF changerName # "" THEN changerName ELSE At(s.users, current.index).name

(* the new order with the changer appended after the others *)
NewOrder_changerLast(users, newDriverIndex, changer) ==
    LET newDriverUser == At(users, newDriverIndex)
        ci            == FindByName(users, changer)
        hasChanger    == ci # -1
        changerUser   == IF hasChanger THEN At(users, ci) ELSE newDriverUser
        second        == IF hasChanger /\ changerUser.name # newDriverUser.name
                         THEN <<changerUser>> ELSE <<>>
    IN  <<newDriverUser>> \o Others(users, newDriverUser, hasChanger, changerUser) \o second

(* const newOrder = [] ... settings.users = newOrder *)
NewOrder(users, newDriverIndex, changer) ==
    LET newDriverUser == At(users, newDriverIndex)
        ci            == FindByName(users, changer)
        hasChanger    == ci # -1
        changerUser   == IF hasChanger THEN At(users, ci) ELSE newDriverUser
        second        == IF hasChanger /\ changerUser.name # newDriverUser.name
                         THEN <<changerUser>> ELSE <<>>
    IN  <<newDriverUser>> \o second \o Others(users, newDriverUser, hasChanger, changerUser)

(* the "Sonraki Sira" part of the notification: positions 2..5 and the rest count *)
NextUp(users) ==
    [next |-> [i \in 1..((IF Len(users) < 5 THEN Len(users) ELSE 5) - 1) |-> users[i + 1].name],
     more |-> IF Len(users) > 5 THEN Len(users) - 5 ELSE 0]

(* the validation without the already-on-duty check *)
ValidationError_noDutyCheck(s, newDriverIndex, current) ==
    IF Len(s.users) = 0 THEN "Kullanici yok"
    ELSE IF newDriverIndex < 0 \/ newDriverIndex >= Len(s.users)
    THEN "Gecersiz surucu secimi"
    ELSE ""

(* the three early returns with status 400; "" when the request passes *)
ValidationError(s, newDriverIndex, current) ==
    IF Len(s.users) = 0 THEN "Kullanici yok"
    ELSE IF newDriverIndex < 0 \/ newDriverIndex >= Len(s.users)
    THEN "Gecersiz surucu secimi"
    ELSE IF current.index = newDriverIndex
    THEN "Bu kisi zaten bu haftanin surucusu"
    ELSE ""

(* the re-anchoring that resets the year but leaves the anchor week *)
Reanchor_yearOnly(s, currentWeekNum, currentYear) ==
    [s EXCEPT !.rotationStartYear = currentYear]

(* settings.rotationStartWeek = currentWeekNum; settings.rotationStartYear = currentYear *)
Reanchor(s, currentWeekNum, currentYear) ==
    [s EXCEPT !.rotationStartWeek = currentWeekNum, !.rotationStartYear = currentYear]

Reject(op, error) ==
    /\ step' = op
    /\ res' = [NoRes EXCEPT !.status = 400, !.error = error]
    /\ sent' = <<>>
    /\ UNCHANGED settings

(* lines 96-105 and 222: what sendTelegramMessage resolves to, a gateway  *)
(* error and a network error both being caught and turned into false      *)
Delivered(out) == out # <<>> /\ out[1].ok

Completed_rollsBack(stored, written, delivered) ==
    IF delivered THEN [settings |-> written, status |-> 200]
    ELSE [settings |-> stored, status |-> 500]

(* lines 205-228: the document left in the file and the status answered   *)
(* once the awaited notification has resolved; its value is discarded     *)
Completed(stored, written, delivered) ==
    [settings |-> written, status |-> 200]

(* the handler working on a copy of the document read at server start *)
ChangeDriver_staleDocument(newDriverIndex, changerName, ok) ==
    LET op == [op |-> "change-driver", newDriverIndex |-> newDriverIndex,
               changerName |-> changerName, date |-> now.date]
        currentYear    == getFullYear(now.date)
        currentWeekNum == getWeekNumber(now.date)
        current        == getCurrentDriver(settings, currentWeekNum, currentYear)
        error          == ValidationError(settings, newDriverIndex, current)
    IN
    /\ IF error # "" THEN Reject(op, error)
       ELSE
         LET newDriverName == At(settings.users, newDriverIndex).name
             changer       == ChangerOf(settings, changerName, current)
             newOrder      == NewOrder(settings.users, newDriverIndex, changer)
             written       == Reanchor([initialSettings EXCEPT !.users = newOrder],
                                       currentWeekNum, currentYear)
             message       == [kind |-> "change", changer |-> changer,
                               driver |-> newDriverName, up |-> NextUp(newOrder)]
             out           == sendTelegramMessage(written.botToken, written.chatId,
                                                  message, ok)
             done          == Completed(settings, written, Delivered(out))
         IN  /\ settings' = done.settings
             /\ sent' = out
             /\ res' = [status |-> done.status, error |-> "",
                        changer |-> changer, driver |-> newDriverName,
                        newOrder |-> [i \in 1..Len(newOrder) |-> newOrder[i].name]]
             /\ step' = op
    /\ UNCHANGED <<now, tz, lastReminderDate, firedOn, call, ret>>

(* app.post('/api/change-driver'): lines 148-205 run without yielding, the *)
(* only await (line 222) follows the write; ok is the gateway's answer    *)
ChangeDriver(newDriverIndex, changerName, ok) ==
    LET op == [op |-> "change-driver", newDriverIndex |-> newDriverIndex,
               changerName |-> changerName, date |-> now.date]
        currentYear    == getFullYear(now.date)
        currentWeekNum == getWeekNumber(now.date)
        current        == getCurrentDriver(settings, currentWeekNum, currentYear)
        error          == ValidationError(settings, newDriverIndex, current)
    IN
    /\ IF error # "" THEN Reject(op, error)
       ELSE
         LET newDriverName == At(settings.users, newDriverIndex).name
             changer       == ChangerOf(settings, changerName, current)
             newOrder      == NewOrder(settings.users, newDriverIndex, changer)
             written       == Reanchor([settings EXCEPT !.users = newOrder],
                                       currentWeekNum, currentYear)
             message       == [kind |-> "change", changer |-> changer,
                               driver |-> newDriverName, up |-> NextUp(newOrder)]
             out           == sendTelegramMessage(written.botToken, written.chatId,
                                                  message, ok)
             done          == Completed(settings, written, Delivered(out))
         IN  /\ settings' = done.settings
             /\ sent' = out
             /\ res' = [status |-> done.status, error |-> "",
                        changer |-> changer, driver |-> newDriverName,
                        newOrder |-> [i \in 1..Len(newOrder) |-> newOrder[i].name]]
             /\ step' = op
    /\ UNCHANGED <<now, tz, lastReminderDate, firedOn, call, ret>>

----------------------------------------------------------------------------
(* The reminder scheduler *)

(* How reading settings.json can fail during a tick: not at all, at the   *)
(* callback's own read (line 331), or at sendScheduledReminder's (line 296) *)
ReadFaults == {"none", "callback", "reminder"}
Caught == "caught"
Uncaught == "uncaught"

(* function sendScheduledReminder(): the messages it hands to the gateway; *)
(* readable is whether its JSON.parse(fs.readFileSync(...)) succeeds, the   *)
(* error being caught at line 322 otherwise                                 *)
sendScheduledReminder(s, t, readable) ==
    IF ~readable THEN <<>>
    ELSE IF s.botToken = "" \/ s.chatId = "" \/ Len(s.users) = 0 THEN <<>>
    ELSE
      LET currentYear == getFullYear(t.date)
          nextWeekNum == getWeekNumber(t.date) + 1
          driver      == getCurrentDriver(s, nextWeekNum, currentYear)
      IN  IF driver.index = -1 THEN <<>>
          ELSE <<[message |-> [kind |-> "reminder", driver |-> driver.name,
                               week |-> nextWeekNum, year |-> currentYear]]>>

(* a scheduler that re-anchors the rotation whenever its time has come *)
Tick_reanchors(ok, fault) ==
    LET todayStr == toISODate(now, tz) IN
    /\ step' = [NoStep EXCEPT !.op = "tick", !.date = now.date]
    /\ IF fault = "callback"
       THEN /\ res' = [NoRes EXCEPT !.error = Uncaught]
            /\ sent' = <<>>
            /\ UNCHANGED <<settings, lastReminderDate, firedOn>>
       ELSE IF lastReminderDate = todayStr
       THEN /\ res' = NoRes
            /\ sent' = <<>>
            /\ UNCHANGED <<settings, lastReminderDate, firedOn>>
       ELSE IF /\ getDay(now.date) = settings.reminderDay
               /\ now.hours = settings.reminderHour
               /\ now.minutes = settings.reminderMinute
       THEN LET out == sendScheduledReminder(settings, now, fault # "reminder") IN
            /\ res' = [NoRes EXCEPT !.error = IF fault = "reminder" THEN Caught ELSE ""]
            /\ sent' = [i \in 1..Len(out) |-> [message |-> out[i].message, ok |-> ok]]
            /\ lastReminderDate' = todayStr
            /\ firedOn' = IF out # <<>> THEN now.date ELSE firedOn
            /\ settings' = Reanchor(settings, getWeekNumber(now.date), getFullYear(now.date))
       ELSE /\ res' = NoRes
            /\ sent' = <<>>
            /\ UNCHANGED <<settings, lastReminderDate, firedOn>>
    /\ UNCHANGED <<now, tz, call, ret>>

(* cron.schedule('* * * * *', ...) callback; ok is the gateway's answer,   *)
(* fault the read of settings.json that fails. The read at line 331 is in  *)
(* no try block: its error leaves the callback (res.error = Uncaught).     *)
Tick(ok, fault) ==
    LET todayStr == toISODate(now, tz) IN
    /\ step' = [NoStep EXCEPT !.op = "tick", !.date = now.date]
    /\ IF fault = "callback"
       THEN /\ res' = [NoRes EXCEPT !.error = Uncaught]
            /\ sent' = <<>>
            /\ UNCHANGED <<lastReminderDate, firedOn>>
       ELSE IF lastReminderDate = todayStr
       THEN /\ res' = NoRes
            /\ sent' = <<>>
            /\ UNCHANGED <<lastReminderDate, firedOn>>
       ELSE IF /\ getDay(now.date) = settings.reminderDay
               /\ now.hours = settings.reminderHour
               /\ now.minutes = settings.reminderMinute
       THEN LET out == sendScheduledReminder(settings, now, fault # "reminder") IN
            /\ res' = [NoRes EXCEPT !.error = IF fault = "reminder" THEN Caught ELSE ""]
            /\ sent' = [i \in 1..Len(out) |-> [message |-> out[i].message, ok |-> ok]]
            /\ lastReminderDate' = todayStr
            /\ firedOn' = IF out # <<>> THEN now.date ELSE firedOn
       ELSE /\ res' = NoRes
            /\ sent' = <<>>
            /\ UNCHANGED <<lastReminderDate, firedOn>>
    /\ UNCHANGED <<settings, now, tz, call, ret>>

(* Time passes on the host clock *)
Advance(t) ==
    /\ Minutes(t) > Minutes(now)
    /\ now' = t
    /\ UNCHANGED <<settings, tz, lastReminderDate, step, res, sent, firedOn, call, ret>>

----------------------------------------------------------------------------
(* Direct evaluations of the rotation engine on bounded inputs *)

CallAnchorWeeks == {0, 1, 2, 27, 52, 53}
CallTargetWeeks == {1, 2, 3, 4, 27, 52, 53, 54}
CallYears == {2025, 2026, 2027}

Quiet ==
    /\ settings = initialSettings
    /\ now = [date |-> FirstDay, hours |-> 18, minutes |-> 0]
    /\ lastReminderDate = <<>>
    /\ step = NoStep
    /\ res = NoRes
    /\ sent = <<>>
    /\ firedOn = -1

InitDriver ==
    /\ Quiet
    /\ tz = 0
    /\ call \in [users : Rosters, rotationStartWeek : CallAnchorWeeks,
                 rotationStartYear : CallYears \cup {0},
                 targetWeek : CallTargetWeeks, year : CallYears]
    /\ ret = NoRet

Evaluate ==
    /\ ret = NoRet
    /\ ret' = getCurrentDriver(call, call.targetWeek, call.year)
    /\ UNCHANGED <<settings, now, tz, lastReminderDate, step, res, sent, firedOn, call>>

NextDriver == Evaluate

SpecDriver == InitDriver /\ [][NextDriver]_vars

(* Direct evaluations on every date of NumYears consecutive years: the     *)
(* week number of the date and the participant on duty on that date and on *)
(* the same weekday one week later, with roster and anchor fixed.          *)
FirstYear == 2020
CalendarDays ==
    DaysFromCivil(FirstYear, 1, 1) .. (DaysFromCivil(FirstYear + NumYears, 1, 1) - 1)
Crew == <<User("A"), User("B"), User("C")>>
CalendarRosters == {SubSeq(Crew, 1, n) : n \in 2..3}
CalendarAnchorWeeks == {1, 27}
CalendarAnchorYears == {FirstYear - 1}

InitCalendar ==
    /\ Quiet
    /\ tz = 0
    /\ call \in [users : CalendarRosters, rotationStartWeek : CalendarAnchorWeeks,
                 rotationStartYear : CalendarAnchorYears, date : CalendarDays]
    /\ ret = NoRet

EvaluateWeek ==
    /\ ret = NoRet
    /\ ret' = [week  |-> getWeekNumber(call.date),
               year  |-> getFullYear(call.date),
               index |-> getCurrentDriver(call, getWeekNumber(call.date),
                                          getFullYear(call.date)).index,
               after |-> getCurrentDriver(call, getWeekNumber(call.date + 7),
                                          getFullYear(call.date + 7)).index]
    /\ UNCHANGED <<settings, now, tz, lastReminderDate, step, res, sent, firedOn, call>>

NextCalendar == EvaluateWeek

SpecCalendar == InitCalendar /\ [][NextCalendar]_vars

----------------------------------------------------------------------------
(* Inputs of the requests *)

Indices == -1..MaxUsers
(* changerName: absent (""), a roster name ("B" stands for any of them, the *)
(* rosters being all arrangements of Names), or a name in no roster        *)
ChangerNames == {"", "B", Outsider}

----------------------------------------------------------------------------
(* The change-driver handler on every stored document: any roster over     *)
(* Names (POST /api/settings stores the body as sent, so names may repeat) *)
(* and any anchor, at any date of the clock.                               *)

StoredAnchorWeeks == {1, 52}
StoredAnchorYears == {2026}

(* Thursday 2026-12-31 and Friday 2027-01-01, both in ISO week 53, and     *)
(* Monday 2027-01-04 in week 1                                             *)
OverrideDays == {FirstDay, FirstDay + 1, FirstDay + 4}

InitOverride ==
    /\ \E u \in Rosters, w \in StoredAnchorWeeks, y \in StoredAnchorYears :
          settings = [initialSettings EXCEPT !.users = u, !.rotationStartWeek = w,
                                             !.rotationStartYear = y,
                                             !.botToken = "tok", !.chatId = "chat"]
    /\ now \in [date : OverrideDays, hours : {18}, minutes : {0}]
    /\ tz = 0
    /\ lastReminderDate = <<>>
    /\ step = NoStep
    /\ res = NoRes
    /\ sent = <<>>
    /\ firedOn = -1
    /\ call = NoCall
    /\ ret = NoRet

NextOverride ==
    \/ \E i \in Indices, c \in ChangerNames : ChangeDriver(i, c, TRUE)
    \/ \E d \in OverrideDays : Advance([now EXCEPT !.date = d])

SpecOverride == InitOverride /\ [][NextOverride]_vars

----------------------------------------------------------------------------
(* The server: settings.json starts as initialSettings *)

Bodies ==
    {[initialSettings EXCEPT !.users = u, !.reminderDay = d, !.reminderHour = h,
                             !.botToken = t[1], !.chatId = t[2]] :
        u \in {<<>>, <<User("A"), User("B"), User("C")>>},
        d \in {5}, h \in ClockHours, t \in {<<"", "">>, <<"tok", "chat">>}}

Init ==
    /\ Quiet
    /\ tz \in TzOffsets
    /\ call = NoCall
    /\ ret = NoRet

Next ==
    \/ \E body \in Bodies : SaveSettings(body)
    \/ \E i \in {1, 2}, c \in {"", "B"}, ok \in BOOLEAN : ChangeDriver(i, c, ok)
    \/ \E ok \in BOOLEAN, fault \in ReadFaults : Tick(ok, fault)
    \/ \E t \in Instants : Advance(t)

Spec == Init /\ [][Next]_vars

(* The week offset as the rotation rule states it, for anchor (aw, ay) *)
StatedOffset(tw, ty, aw, ay) ==
    (tw - aw) + (IF ty > ay THEN 52 * (ty - ay) ELSE 0)

Evaluated == ret # NoRet /\ Len(call.users) > 0

(* C5: for every non-empty roster and every anchor (w, y) with w in 1..53, *)
(* getCurrentDriver with target week w and target year y returns index 0,  *)
(* the first roster participant.                                           *)
C5_AnchorWeekIsFirst ==
    (/\ Evaluated
     /\ call.rotationStartWeek \in 1..53
     /\ call.targetWeek = call.rotationStartWeek
     /\ call.year = call.rotationStartYear)
    => (ret.index = 0 /\ ret.name = call.users[1].name)

C5_Witness ==
    /\ Evaluated
    /\ Len(call.users) = 3
    /\ call.rotationStartWeek = 53
    /\ call.targetWeek = 53
    /\ call.year = call.rotationStartYear
    /\ ret.index = 0

(* C6 as stated: for every non-empty roster R, every stored anchor and     *)
(* every target, the index is in [0, len(R)) and equals effectiveWeek mod  *)
(* len(R) with effectiveWeek = targetWeek - anchorWeek, plus               *)
(* 52*(targetYear - anchorYear) when targetYear > anchorYear.              *)
C6_Original ==
    Evaluated =>
        /\ ret.index \in 0..(Len(call.users) - 1)
        /\ ret.index = StatedOffset(call.targetWeek, call.year, call.rotationStartWeek,
                                    call.rotationStartYear) % Len(call.users)

(* C6 amended: the same, where a stored anchor week of 0 counts as week 1  *)
(* and a stored anchor year of 0 counts as the target year; the raised     *)
(* effective week is the least non-negative value reached by adding        *)
(* len(R), so the loop ends.                                               *)
C6_IndexIsOffsetModLen ==
    Evaluated =>
        LET n  == Len(call.users)
            aw == IF call.rotationStartWeek = 0 THEN 1 ELSE call.rotationStartWeek
            ay == IF call.rotationStartYear = 0 THEN call.year ELSE call.rotationStartYear
            ew == StatedOffset(call.targetWeek, call.year, aw, ay)
            r  == RaiseWeek(ew, n)
        IN  /\ ret.index \in 0..(n - 1)
            /\ ret.index = ew % n
            /\ ret.name = call.users[ret.index + 1].name
            /\ r >= 0
            /\ (r - ew) % n = 0
            /\ (ew < 0 => r < n)
            /\ (ew >= 0 => r = ew)

(* a target earlier than the anchor, and a target in a later year *)
C6_Witness ==
    /\ Evaluated
    /\ Len(call.users) = 3
    /\ call.targetWeek = 2
    /\ call.rotationStartWeek = 53
    /\ call.year = call.rotationStartYear
    /\ ret.index = 0

----------------------------------------------------------------------------
(* Properties of the change-driver handler *)

(* this step handles a change-driver request (the clock stands still in it) *)
ChangeStep == step'.op = "change-driver" /\ now' = now
Accepted == ChangeStep /\ res'.status = 200
JustAccepted == step.op = "change-driver" /\ res.status = 200 /\ step.date = now.date

NameCount(users, n) == Cardinality({i \in 1..Len(users) : users[i].name = n})
DistinctNames(users) == \A i, j \in 1..Len(users) : users[i].name = users[j].name => i = j
IsPermutation(a, b) ==
    /\ Len(a) = Len(b)
    /\ \A n \in Names : NameCount(a, n) = NameCount(b, n)

(* the on-duty participant's index as the handler computes it before the request *)
OnDuty == getCurrentDriver(settings, getWeekNumber(now.date), getFullYear(now.date))

(* C1 as stated: every accepted change-driver request leaves the roster a  *)
(* permutation of the roster stored before it, for every stored roster.    *)
C1_Original == [][Accepted => IsPermutation(settings.users, settings'.users)]_vars

(* C1 amended: every accepted change-driver request on a stored roster     *)
(* whose participant names are pairwise distinct leaves the roster a       *)
(* permutation of it (same length, every participant exactly once), for    *)
(* every valid newDriverIndex and every changerName.                       *)
C1_Permutation ==
    [][(Accepted /\ DistinctNames(settings.users))
          => (IsPermutation(settings.users, settings'.users)
              /\ DistinctNames(settings'.users))]_vars

(* an accepted request on a three-name roster whose changerName is in no roster *)
C1_Witness ==
    /\ JustAccepted
    /\ step.changerName = Outsider
    /\ Len(settings.users) = 3
    /\ DistinctNames(settings.users)

(* the roster without the participants at the 0-based positions in skip *)
Without(users, skip) == 
    LET keep == {i \in 1..Len(users) : (i - 1) \notin skip}
        F[i \in 0..Len(users)] ==
            IF i = 0 THEN <<>>
            ELSE IF i \in keep THEN Append(F[i - 1], users[i]) ELSE F[i - 1]
    IN  F[Len(users)]

(* the order the reorder rule prescribes: the selected participant, then   *)
(* the changer (the first participant carrying the changer's name, if any) *)
(* when that is another participant, then the rest in roster order         *)
Prescribed(users, newDriverIndex, changer) ==
    LET cpos == {i \in 0..(Len(users) - 1) :
                    /\ At(users, i).name = changer
                    /\ \A j \in 0..(i - 1) : At(users, j).name # changer}
        second == {i \in cpos : i # newDriverIndex}
    IN  <<At(users, newDriverIndex)>>
        \o [k \in 1..Cardinality(second) |-> At(users, CHOOSE i \in second : TRUE)]
        \o Without(users, {newDriverIndex} \cup second)

C3_Original ==
    [][(Accepted /\ DistinctNames(settings.users)) =>
          LET found   == step'.changerName # "" /\ NameCount(settings.users, step'.changerName) > 0
              changer == IF found THEN step'.changerName ELSE OnDuty.name
          IN  changer # At(settings.users, step'.newDriverIndex).name
                  => (Len(settings'.users) >= 2 /\ At(settings'.users, 1).name = changer)]_vars

(* C4: after every accepted change-driver request the persisted anchor is  *)
(* the current week and year, and getCurrentDriver on the persisted        *)
(* settings for the current week and year returns index 0, the participant *)
(* selected by newDriverIndex.                                             *)
C4_Reanchored ==
    [][Accepted =>
          LET week == getWeekNumber(now.date)
              year == getFullYear(now.date)
              d    == getCurrentDriver(settings', week, year)
          IN  /\ settings'.rotationStartWeek = week
              /\ settings'.rotationStartYear = year
              /\ d.index = 0
              /\ d.name = At(settings.users, step'.newDriverIndex).name
              /\ At(settings'.users, 0) = At(settings.users, step'.newDriverIndex)]_vars

(* an accepted request on Friday 2027-01-01, in ISO week 53 *)
C4_Witness ==
    /\ JustAccepted
    /\ settings.rotationStartWeek = 53
    /\ settings.rotationStartYear = 2027
    /\ Len(settings.users) = 3
    /\ settings.users[1].name = res.driver

(* C7: a change-driver request is rejected with a validation error, and    *)
(* the persisted settings stay as they were and no notification is sent,   *)
(* when the roster is empty, when newDriverIndex is outside                *)
(* [0, roster.length), and when newDriverIndex is the index of the         *)
(* participant on duty in the current week.                                *)
C7_Rejected ==
    [][(/\ ChangeStep
        /\ \/ Len(settings.users) = 0
           \/ step'.newDriverIndex \notin 0..(Len(settings.users) - 1)
           \/ step'.newDriverIndex = OnDuty.index)
          => (/\ res'.status = 400
              /\ res'.error # ""
              /\ settings' = settings
              /\ sent' = <<>>)]_vars

(* a request for the participant on duty at index 1 was rejected *)
C7_Witness ==
    /\ step.op = "change-driver"
    /\ step.date = now.date
    /\ step.newDriverIndex = 1
    /\ OnDuty.index = 1
    /\ res.status = 400
    /\ res.error = "Bu kisi zaten bu haftanin surucusu"
    /\ sent = <<>>

(* Monday of the calendar week of a date *)
WeekStart(date) == date - ((getDay(date) + 6) % 7)

(* C8: after an accepted change-driver request that selected P, a further  *)
(* change-driver request in the same week (no settings save in between)    *)
(* whose newDriverIndex designates P, now at index 0, is rejected as       *)
(* already on duty and changes nothing (stated for rosters of pairwise     *)
(* distinct names).                                                        *)
C8_Original ==
    [][(/\ DistinctNames(settings.users)
        /\ step.op = "change-driver"
        /\ res.status = 200
        /\ WeekStart(step.date) = WeekStart(now.date)
        /\ ChangeStep
        /\ step'.newDriverIndex = 0)
          => (/\ res'.status = 400
              /\ settings' = settings
              /\ sent' = <<>>)]_vars

----------------------------------------------------------------------------
(* Properties of the reminder scheduler *)

(* this step is a scheduler tick *)
TickStep == step'.op = "tick" /\ now' = now
TriggerTime ==
    /\ getDay(now.date) = settings.reminderDay
    /\ now.hours = settings.reminderHour
    /\ now.minutes = settings.reminderMinute

(* C9: over any sequence of ticks and settings saves, at most one reminder *)
(* fires per host-local calendar date.                                     *)
C9_Original == [][(TickStep /\ sent' # <<>>) => firedOn # now.date]_vars

(* C10: on every tick at the configured (dayOfWeek, hour, minute), with no *)
(* reminder fired earlier on that host-local date and with roster and      *)
(* notification target configured, exactly one reminder is sent (stated    *)
(* for ticks whose reads of the settings succeed).                         *)
C10_Original ==
    [][(/\ TickStep
        /\ res'.error = ""
        /\ TriggerTime
        /\ firedOn # now.date
        /\ Len(settings.users) > 0
        /\ settings.botToken # ""
        /\ settings.chatId # "")
          => (Len(sent') = 1 /\ sent'[1].message.kind = "reminder")]_vars

(* the participant on duty on a date, from its real week number and year *)
OnDutyAt(date) == getCurrentDriver(settings, getWeekNumber(date), getFullYear(date))

(* C11: the participant a fired reminder names is the participant on duty  *)
(* during the following calendar week, computed from that week's real week *)
(* number and year, the last week of a year included.                      *)
C11_Original ==
    [][(TickStep /\ sent' # <<>>)
          => sent'[1].message.driver = OnDutyAt(now.date + 7).name]_vars

(* C12: when the notification of an accepted change-driver request is not *)
(* delivered (gateway or network error, or no target configured), the     *)
(* reordered roster and the new anchor are what the file holds afterwards *)
(* and the request answers with success.                                  *)
C12_NotificationFailureKeepsChange ==
    [][(/\ ChangeStep
        /\ ValidationError(settings, step'.newDriverIndex, OnDuty) = ""
        /\ ~Delivered(sent'))
          => (/\ res'.status = 200
              /\ IsPermutation(settings'.users, settings.users)
              /\ settings'.users[1] = At(settings.users, step'.newDriverIndex)
              /\ res'.newOrder = [i \in 1..Len(settings'.users) |-> settings'.users[i].name]
              /\ settings'.rotationStartWeek = getWeekNumber(now.date)
              /\ settings'.rotationStartYear = getFullYear(now.date))]_vars
C12_Witness ==
    /\ step.op = "change-driver"
    /\ res.status = 200
    /\ sent # <<>>
    /\ ~sent[1].ok
    /\ settings.users[1].name = res.driver
    /\ settings.rotationStartWeek = getWeekNumber(step.date)

----------------------------------------------------------------------------
(* Properties of the calendar arithmetic *)

(* ISO-8601: weeks start on Monday, week 1 of a year is the week that     *)
(* contains 4 January, and a date belongs to the year whose week 1 starts *)
(* on or before it and whose successor's week 1 starts after it.          *)
IsoFirstMonday(y) == WeekStart(DaysFromCivil(y, 1, 4))
IsoYear(date) ==
    CHOOSE y \in (getFullYear(date) - 1)..(getFullYear(date) + 1) :
        IsoFirstMonday(y) <= date /\ date < IsoFirstMonday(y + 1)
IsoWeek(date) == (date - IsoFirstMonday(IsoYear(date))) \div 7 + 1
IsJanuaryFirst(date) == CivilFromDays(date).month = 1 /\ CivilFromDays(date).day = 1
WeekEvaluated == ret # NoRet /\ call # NoCall

(* C13: getWeekNumber returns the ISO-8601 week number of every date; a   *)
(* 1 January on Friday, Saturday or Sunday is in week 52 or 53 (of the    *)
(* previous year), a 1 January on Monday to Thursday is in week 1.        *)
C13_IsoWeekNumber ==
    WeekEvaluated =>
        /\ ret.week = IsoWeek(call.date)
        /\ IsJanuaryFirst(call.date) =>
              IF getDay(call.date) \in {5, 6, 0} THEN ret.week \in {52, 53}
              ELSE ret.week = 1
C13_Witness ==
    /\ WeekEvaluated
    /\ IsJanuaryFirst(call.date)
    /\ getDay(call.date) = 5
    /\ ret.week = 53

(* C17: with roster and anchor fixed and no override, the on-duty index   *)
(* computed from the real week number and calendar year of a date is one  *)
(* more, modulo the roster length, on the same weekday of the following   *)
(* week, across a year boundary too.                                      *)
C17_Original ==
    WeekEvaluated => ret.after = (ret.index + 1) % Len(call.users)

----------------------------------------------------------------------------
(* Properties of the scheduler's marker and of its failures *)

(* C14: the last-fired date is set only when a reminder was handed to the *)
(* gateway; a tick at the configured time that skips, the roster being    *)
(* empty or the target absent, leaves the marker as it was (stated for    *)
(* ticks whose reads of the settings succeed).                            *)
C14_Original ==
    [][(TickStep /\ res'.error = "")
          => (/\ lastReminderDate' # lastReminderDate => sent' # <<>>
              /\ (/\ TriggerTime
                  /\ \/ Len(settings.users) = 0
                     \/ settings.botToken = ""
                     \/ settings.chatId = "")
                    => lastReminderDate' = lastReminderDate)]_vars

(* C15: every error raised during a tick, the settings being unreadable   *)
(* when the tick starts included, is caught inside the tick: none leaves  *)
(* the callback, and a tick that failed leaves the marker as it was.      *)
C15_Original ==
    [][(TickStep /\ res'.error # "")
          => (res'.error = Caught /\ lastReminderDate' = lastReminderDate)]_vars

(* C16: after an accepted change-driver request whose changer is a roster *)
(* participant other than the selected driver, a reminder that fires      *)
(* later in the same week, no request in between, names the changer as    *)
(* next week's driver.                                                    *)
C16_Original ==
    [][(/\ step.op = "change-driver"
        /\ res.status = 200
        /\ FindByName(settings.users, res.changer) # -1
        /\ res.changer # res.driver
        /\ WeekStart(step.date) = WeekStart(now.date)
        /\ TickStep
        /\ sent' # <<>>)
          => sent'[1].message.driver = res.changer]_vars

----------------------------------------------------------------------------
(* Properties of the stored document under interleaved requests and ticks *)

(* the fields of the document other than the roster and the anchor *)
Rest(s) == [s EXCEPT !.users = <<>>, !.rotationStartWeek = 0, !.rotationStartYear = 0]

(* C18: whatever requests and ticks came before it, the document an       *)
(* accepted change-driver request writes differs from the document stored *)
(* immediately before the write only in the order of the roster and in    *)
(* the anchor: no other handler's write is lost.                          *)
C18_NoLostUpdate ==
    [][Accepted => (/\ Rest(settings') = Rest(settings)
                    /\ DistinctNames(settings.users)
                          => IsPermutation(settings'.users, settings.users))]_vars
C18_Witness ==
    /\ JustAccepted
    /\ settings.botToken = "tok"
    /\ settings.reminderHour = 2
    /\ settings.users # <<User("A"), User("B"), User("C")>>
    /\ lastReminderDate # <<>>

(* C19: a scheduler tick, whether it fires, skips or is suppressed, never *)
(* changes the stored settings; of the server's state only the in-memory  *)
(* last-fired date can change on a tick.                                  *)
C19_TickKeepsSettings == [][TickStep => settings' = settings]_vars
C19_Witness ==
    /\ step.op = "tick"
    /\ sent # <<>>
    /\ lastReminderDate # <<>>
    /\ settings.users # <<>>
    /\ settings.rotationStartWeek # getWeekNumber(step.date)

====
